---- MODULE Spec2Model ----
(***************************************************************************)
(* Model of the hybrid extraction pipeline of SmartCFHelper                *)
(* (ProblemWebviewProvider.extractProblemData and the functions it calls): *)
(* URL parsing, the metadata lookup, the rendered-page scrape with its     *)
(* browser session, and the merge of the two results.                      *)
(*                                                                         *)
(* Specifications:                                                         *)
(*   Spec, FairSpec    one extractProblemData call, await by await         *)
(*   ApiSpec           one fetchFromCodeforcesAPI call with its document   *)
(*   SampleSpec        the page.evaluate callback on varying sample blocks *)
(*   DescriptionSpec   the same callback on varying description blocks     *)
(*   ConcSpec          several extractProblemData calls interleaved        *)
(*   PanelSpec         showProblem calls and the disposal of the panel     *)
(***************************************************************************)
EXTENDS Integers, Sequences, FiniteSets, TLC

(***************************************************************************)
(* Bounds of the model.                                                    *)
(***************************************************************************)
\* a URL is the host followed by at most MaxPieces path pieces
MaxPieces == 4
\* result.problems of an API response holds at most MaxProblems entries
\* when fetchFromCodeforcesAPI is followed on its own
MaxProblems == 2
\* and at most MaxListed entries within a whole extractProblemData call,
\* which reads the response through the outcome of fetchFromCodeforcesAPI
\* only
MaxListed == 1

(***************************************************************************)
(* Characters.  A string the code inspects character by character (the     *)
(* URL, the problem index) is a sequence of one-character strings.         *)
(***************************************************************************)
LowerCase == <<"a", "b", "c", "d", "e", "f", "g", "h", "i", "j", "k", "l", "m", "n", "o", "p", "q", "r", "s", "t", "u", "v", "w", "x", "y", "z">>
UpperCase == <<"A", "B", "C", "D", "E", "F", "G", "H", "I", "J", "K", "L", "M", "N", "O", "P", "Q", "R", "S", "T", "U", "V", "W", "X", "Y", "Z">>
DigitChars == <<"0", "1", "2", "3", "4", "5", "6", "7", "8", "9">>

\* position of c in seq, 0 when absent
IndexOf(c, seq) ==
  IF \E i \in 1..Len(seq) : seq[i] = c
  THEN CHOOSE i \in 1..Len(seq) : seq[i] = c
  ELSE 0

\* the characters of each class, as sets
LowerLetters == {LowerCase[i] : i \in 1..Len(LowerCase)}
UpperLetters == {UpperCase[i] : i \in 1..Len(UpperCase)}
DecimalDigits == {DigitChars[i] : i \in 1..Len(DigitChars)}

\* \d
IsDigit(c) == c \in DecimalDigits

\* [A-Z] under the i flag
IsLetter(c) == c \in UpperLetters \/ c \in LowerLetters

toUpperChar(c) == IF c \in LowerLetters THEN UpperCase[IndexOf(c, LowerCase)] ELSE c

toLowerChar(c) == IF c \in UpperLetters THEN LowerCase[IndexOf(c, UpperCase)] ELSE c

\* String.prototype.toUpperCase
toUpperCase(s) == [i \in 1..Len(s) |-> toUpperChar(s[i])]

\* parseInt on a run of decimal digits: left to right, acc * 10 + digit
RECURSIVE parseIntFrom(_, _, _)
parseIntFrom(s, i, acc) ==
  IF i > Len(s) THEN acc
  ELSE parseIntFrom(s, i + 1, acc * 10 + (IndexOf(s[i], DigitChars) - 1))

parseInt(s) == parseIntFrom(s, 1, 0)

(***************************************************************************)
(* The two URL patterns of extractProblemData,                             *)
(*   /\/problemset\/problem\/(\d+)\/([A-Z]\d?)/i                           *)
(*   /\/contest\/(\d+)\/problem\/([A-Z]\d?)/i                              *)
(* Both have the form  lit1 (\d+) lit2 ([A-Z]\d?)  and are unanchored.     *)
(***************************************************************************)
LitProblemset == <<"/", "p", "r", "o", "b", "l", "e", "m", "s", "e", "t", "/", "p", "r", "o", "b", "l", "e", "m", "/">>
LitContest == <<"/", "c", "o", "n", "t", "e", "s", "t", "/">>
LitProblem == <<"/", "p", "r", "o", "b", "l", "e", "m", "/">>
LitSlash == <<"/">>

\* the result of String.prototype.match when the pattern does not match
NoMatch == <<>>

\* the literal lit (lower case) matches url at position p, ignoring case
LitMatchesAt(url, lit, p) ==
  /\ p + Len(lit) - 1 <= Len(url)
  /\ \A i \in 1..Len(lit) : toLowerChar(url[p + i - 1]) = lit[i]

\* length of the longest run of digits of url that starts at position q
RECURSIVE DigitRun(_, _)
DigitRun(url, q) ==
  IF q <= Len(url) /\ IsDigit(url[q]) THEN 1 + DigitRun(url, q + 1) ELSE 0

\* a variant of MatchAt whose digit group is \d* : it accepts an empty run
MatchAtStar(url, lit1, lit2, p) ==
  LET q == p + Len(lit1)
      n == DigitRun(url, q)
      r == q + n
      s == r + Len(lit2)
  IN  IF /\ LitMatchesAt(url, lit1, p)
         /\ LitMatchesAt(url, lit2, r)
         /\ s <= Len(url)
         /\ IsLetter(url[s])
      THEN << SubSeq(url, q, r - 1),
              IF s + 1 <= Len(url) /\ IsDigit(url[s + 1])
              THEN SubSeq(url, s, s + 1) ELSE SubSeq(url, s, s) >>
      ELSE NoMatch

\* the match of  lit1 (\d+) lit2 ([A-Z]\d?)  that starts at position p:
\* << group 1, group 2 >>, or NoMatch.  \d+ is greedy; giving back digits
\* never helps, because lit2 starts with "/" and the character after a
\* shorter run is a digit.  \d? is greedy: it takes the digit when present.
MatchAt(url, lit1, lit2, p) ==
  LET q == p + Len(lit1)
      n == DigitRun(url, q)
      r == q + n
      s == r + Len(lit2)
  IN  IF /\ LitMatchesAt(url, lit1, p)
         /\ n >= 1
         /\ LitMatchesAt(url, lit2, r)
         /\ s <= Len(url)
         /\ IsLetter(url[s])
      THEN << SubSeq(url, q, r - 1),
              IF s + 1 <= Len(url) /\ IsDigit(url[s + 1])
              THEN SubSeq(url, s, s + 1) ELSE SubSeq(url, s, s) >>
      ELSE NoMatch

\* String.prototype.match with an unanchored pattern: the leftmost match
match(url, lit1, lit2) ==
  LET starts == {p \in 1..Len(url) : MatchAt(url, lit1, lit2, p) # NoMatch}
  IN  IF starts = {} THEN NoMatch
      ELSE MatchAt(url, lit1, lit2,
                   CHOOSE p \in starts : \A p2 \in starts : p <= p2)

\* urlMatch = url.match(problemset pattern) || url.match(contest pattern)
urlMatch(url) ==
  LET m1 == match(url, LitProblemset, LitSlash)
  IN  IF m1 # NoMatch THEN m1 ELSE match(url, LitContest, LitProblem)

(***************************************************************************)
(* The URLs the model tries: the host followed by path pieces.             *)
(***************************************************************************)
Host == <<"h", "t", "t", "p", "s", ":", "/", "/", "c", "o", "d", "e", "f", "o", "r", "c", "e", "s", ".", "c", "o", "m">>
PieceContestMixed == <<"/", "C", "o", "n", "t", "e", "s", "t", "/">>
PieceTwelve == <<"1", "2">>
PieceLower == <<"a">>
PieceUpperDigit == <<"B", "1">>

Pieces ==
  { LitProblemset, LitContest, LitProblem, LitSlash, PieceContestMixed,
    PieceTwelve, PieceLower, PieceUpperDigit }

RECURSIVE Tails(_)
Tails(k) ==
  IF k = 0 THEN { <<>> }
  ELSE LET shorter == Tails(k - 1)
       IN  shorter \cup { t \o p : t \in shorter, p \in Pieces }

Urls == { Host \o t : t \in Tails(MaxPieces) }

(***************************************************************************)
(* Data.  An optional value (rating?, difficulty?, the result of find) is  *)
(* a sequence: empty when the value is undefined, one element otherwise.   *)
(***************************************************************************)
Absent == <<>>
Some(x) == <<x>>

\* the outcome of an awaited call: it returned a value or threw an error
NoOutcome == [kind |-> "none", value |-> Absent, error |-> ""]
Returned(v) == [kind |-> "returned", value |-> Some(v), error |-> ""]
Thrown(e) == [kind |-> "thrown", value |-> Absent, error |-> e]

\* a || b on strings: the empty string is falsy
OrElse(a, b) == IF a # "" THEN a ELSE b

\* CodeforcesApiProblem records the remote API may list (type and tags,
\* which the code never reads, are left out)
ApiContestIds == {4, 12}
ApiIndexes == { <<"A">>, <<"B", "1">> }
ApiNames == {"", "Watermelon"}
ApiRatings == {Absent, Some(800)}

ApiProblems ==
  [contestId : ApiContestIds, index : ApiIndexes, name : ApiNames, rating : ApiRatings]

RECURSIVE ProblemLists(_)
ProblemLists(k) ==
  IF k = 0 THEN { <<>> }
  ELSE LET shorter == ProblemLists(k - 1)
       IN  shorter \cup { Append(l, p) : l \in shorter, p \in ApiProblems }

\* the JSON documents of up to k entries response.json() may resolve to
ApiDocumentsUpTo(k) ==
  { [status |-> "FAILED", problems |-> <<>>] }
    \cup { [status |-> "OK", problems |-> l] : l \in ProblemLists(k) }

ApiDocuments == ApiDocumentsUpTo(MaxProblems)

\* a variant of find that compares the contestId only
findByContest(problems, cid, idx) ==
  LET hits == {i \in 1..Len(problems) : problems[i].contestId = cid}
  IN  IF hits = {} THEN Absent
      ELSE Some(problems[CHOOSE i \in hits : \A j \in hits : i <= j])

\* Array.prototype.find with the predicate of fetchFromCodeforcesAPI:
\* the first entry whose contestId and index both equal the requested ones
find(problems, cid, idx) ==
  LET hits == {i \in 1..Len(problems) :
                 problems[i].contestId = cid /\ problems[i].index = idx}
  IN  IF hits = {} THEN Absent
      ELSE Some(problems[CHOOSE i \in hits : \A j \in hits : i <= j])

\* fetchFromCodeforcesAPI once response.json() has resolved to data: the
\* status check, the scan, and the catch that wraps every error
fetchFromCodeforcesAPI(data, cid, idx) ==
  IF data.status # "OK"
  THEN Thrown("Failed to fetch from Codeforces API: Error: API Error")
  ELSE LET problem == find(data.problems, cid, idx)
       IN  IF problem = Absent
           THEN Thrown("Failed to fetch from Codeforces API: Error: Problem not found in API")
           ELSE Returned(problem[1])

\* What the selector cascades of page.evaluate find in a rendered page:
\* one text per field ("" when no strategy finds anything), the constraint
\* strings and the accepted sample pairs.
EmptyPage ==
  [title |-> "", timeLimit |-> "", memoryLimit |-> "", description |-> "",
   inputFormat |-> "", outputFormat |-> "", constraints |-> <<>>,
   sampleTests |-> <<>>]

WatermelonPage ==
  [title |-> "Watermelon", timeLimit |-> "1 second",
   memoryLimit |-> "64 megabytes",
   description |-> "One hot summer day Pete and his friend Billy decided to buy a watermelon.",
   inputFormat |-> "The first line contains a single integer w",
   outputFormat |-> "Print YES if the watermelon can be divided",
   constraints |-> << "1 <= w <= 100" >>,
   sampleTests |-> << [input |-> "8", output |-> "YES"],
                      [input |-> "6", output |-> "YES"] >>]

TheatrePage ==
  [title |-> "Theatre Square", timeLimit |-> "2 seconds", memoryLimit |-> "",
   description |-> "", inputFormat |-> "The input contains three positive integers",
   outputFormat |-> "", constraints |-> <<>>,
   sampleTests |-> << [input |-> "6 6 4", output |-> "4"] >>]

Pages == { EmptyPage, WatermelonPage, TheatrePage }

\* a variant of evaluateReturn that hands on the memory limit as found
evaluateReturnBareLimit(page) ==
  [title |-> OrElse(page.title, "Problem Title"),
   timeLimit |-> OrElse(page.timeLimit, "1 second"),
   memoryLimit |-> page.memoryLimit,
   description |-> OrElse(page.description, "Problem description"),
   inputFormat |-> OrElse(page.inputFormat, "See problem statement"),
   outputFormat |-> OrElse(page.outputFormat, "See problem statement"),
   constraints |-> page.constraints,
   sampleTests |-> page.sampleTests,
   source |-> "Codeforces",
   difficulty |-> Absent]

\* the record page.evaluate returns: each field or its default string
evaluateReturn(page) ==
  [title |-> OrElse(page.title, "Problem Title"),
   timeLimit |-> OrElse(page.timeLimit, "1 second"),
   memoryLimit |-> OrElse(page.memoryLimit, "256 megabytes"),
   description |-> OrElse(page.description, "Problem description"),
   inputFormat |-> OrElse(page.inputFormat, "See problem statement"),
   outputFormat |-> OrElse(page.outputFormat, "See problem statement"),
   constraints |-> page.constraints,
   sampleTests |-> page.sampleTests,
   source |-> "Codeforces",
   difficulty |-> Absent]

(***************************************************************************)
(* Rendered documents.  A text is a sequence of one-character strings, so  *)
(* that trimming and lengths are those of the page's text.                 *)
(***************************************************************************)
MaxBlocks == 4

\* the text made of n copies of the character c
Rep(c, n) == [i \in 1..n |-> c]

\* the characters String.prototype.trim and \s treat as white space
IsSpace(c) == c \in {" ", "\n", "\t"}

\* String.prototype.trim: t without its leading and its trailing white space
trim(t) ==
  IF \A i \in 1..Len(t) : IsSpace(t[i]) THEN <<>>
  ELSE LET leading == CHOOSE k \in 0..(Len(t) - 1) :
                        /\ ~IsSpace(t[k + 1])
                        /\ \A j \in 1..k : IsSpace(t[j])
           trailing == CHOOSE k \in 0..(Len(t) - 1) :
                         /\ ~IsSpace(t[Len(t) - k])
                         /\ \A j \in 0..(k - 1) : IsSpace(t[Len(t) - j])
       IN  SubSeq(t, leading + 1, Len(t) - trailing)

\* the JavaScript string with the characters of t
RECURSIVE StringOf(_)
StringOf(t) ==
  IF Len(t) = 0 THEN ""
  ELSE IF Len(t) = 1 THEN t[1]
  ELSE LET half == Len(t) \div 2
       IN  StringOf(SubSeq(t, 1, half)) \o StringOf(SubSeq(t, half + 1, Len(t)))

\* the concatenation of the texts of a list
RECURSIVE Concat(_)
Concat(ts) == IF ts = <<>> THEN <<>> ELSE Head(ts) \o Concat(Tail(ts))

\* the length bound of an accepted sample text
SampleLimit == 200

\* the sample blocks of a page: <div class="input"> and the like, each with
\* a title <div> and <pre> children
InputTitle == << "I", "n", "p", "u", "t" >>
OutputTitle == << "O", "u", "t", "p", "u", "t" >>

SampleBlocks ==
  { [cls |-> "input", title |-> InputTitle, pres |-> ps] :
      ps \in { << << " ", "6", "\n" >> >>, << << " ", "\n" >> >> } }
  \cup
  { [cls |-> "sample-input", title |-> <<>>,
     pres |-> << << " " >> \o Rep("z", SampleLimit - 1) \o << "\n" >> >>] }
  \cup
  { [cls |-> "output", title |-> OutputTitle, pres |-> ps] :
      ps \in { << << "Y", "E", "S" >> >>, << << " ", "N", "O", " " >> >>,
               << Rep("y", SampleLimit + 1) >> } }
  \cup
  { [cls |-> "sample-output", title |-> <<>>, pres |-> << << "4" >> >>] }

RECURSIVE BlockLists(_)
BlockLists(k) ==
  IF k = 0 THEN { <<>> }
  ELSE LET shorter == BlockLists(k - 1)
       IN  shorter \cup { Append(l, b) : l \in shorter, b \in SampleBlocks }

\* the selector lists of the sample extraction: a class, and whether the
\* <pre> descendants or the elements of the class themselves are selected
inputSelectors ==
  << [cls |-> "input", pre |-> TRUE], [cls |-> "sample-input", pre |-> TRUE],
     [cls |-> "input", pre |-> FALSE], [cls |-> "sample-input", pre |-> FALSE] >>

outputSelectors ==
  << [cls |-> "output", pre |-> TRUE], [cls |-> "sample-output", pre |-> TRUE],
     [cls |-> "output", pre |-> FALSE], [cls |-> "sample-output", pre |-> FALSE] >>

\* the textContent of a block: its title followed by its <pre> texts
textContent(block) == block.title \o Concat(block.pres)

\* document.querySelectorAll(selector), as the textContent of each matched
\* element in document order
RECURSIVE querySelectorAll(_, _)
querySelectorAll(blocks, selector) ==
  IF blocks = <<>> THEN <<>>
  ELSE LET b == Head(blocks)
           here == IF b.cls # selector.cls THEN <<>>
                   ELSE IF selector.pre THEN b.pres
                   ELSE << textContent(b) >>
       IN  here \o querySelectorAll(Tail(blocks), selector)

\* a variant of accepted that leaves the output's length unchecked
acceptedAnyOutputLength(input, output) ==
  input # <<>> /\ output # <<>> /\ Len(input) < SampleLimit

\* the condition under which a trimmed pair is pushed
accepted(input, output) ==
  input # <<>> /\ output # <<>> /\ Len(input) < SampleLimit /\ Len(output) < SampleLimit

\* a variant of pairAt that reads the output after the i-th one when there
\* is one
pairAtNext(inputs, outputs, i) ==
  [input |-> trim(inputs[i]),
   output |-> trim(outputs[IF i < Len(outputs) THEN i + 1 ELSE i])]

\* the trimmed texts read at index i of the two lists
pairAt(inputs, outputs, i) ==
  [input |-> trim(inputs[i]), output |-> trim(outputs[i])]

\* a variant of found that never stops the search
foundNever(sampleTests) == FALSE

\* sampleTests.length > 0, the condition of both breaks
found(sampleTests) == Len(sampleTests) > 0

\* the loop over i: pushes the accepted pairs of the two lists, from index
\* i on, onto sampleTests
RECURSIVE pairLoop(_, _, _, _)
pairLoop(inputs, outputs, i, sampleTests) ==
  IF i > Len(inputs) \/ i > Len(outputs) THEN sampleTests
  ELSE LET p == pairAt(inputs, outputs, i)
       IN  pairLoop(inputs, outputs, i + 1,
                    IF accepted(p.input, p.output)
                    THEN Append(sampleTests, [input |-> StringOf(p.input),
                                              output |-> StringOf(p.output)])
                    ELSE sampleTests)

\* the loop over outputSelectors, from the j-th selector on
RECURSIVE outputLoop(_, _, _, _)
outputLoop(blocks, inputs, j, sampleTests) ==
  IF j > Len(outputSelectors) THEN sampleTests
  ELSE LET outputs == querySelectorAll(blocks, outputSelectors[j])
       IN  IF Len(outputs) > 0
           THEN LET pushed == pairLoop(inputs, outputs, 1, sampleTests)
                IN  IF found(pushed) THEN pushed
                    ELSE outputLoop(blocks, inputs, j + 1, pushed)
           ELSE outputLoop(blocks, inputs, j + 1, sampleTests)

\* the loop over inputSelectors, from the k-th selector on
RECURSIVE inputLoop(_, _, _)
inputLoop(blocks, k, sampleTests) ==
  IF k > Len(inputSelectors) THEN sampleTests
  ELSE LET inputs == querySelectorAll(blocks, inputSelectors[k])
       IN  IF Len(inputs) > 0
           THEN LET pushed == outputLoop(blocks, inputs, 1, sampleTests)
                IN  IF found(pushed) THEN pushed
                    ELSE inputLoop(blocks, k + 1, pushed)
           ELSE inputLoop(blocks, k + 1, sampleTests)

\* the sample tests page.evaluate extracts from the blocks of a page
extractSampleTests(blocks) == inputLoop(blocks, 1, <<>>)

(***************************************************************************)
(* The description blocks of a page: for each of the three description     *)
(* selectors, the elements it matches in document order.  An element       *)
(* carries its text, whether its class list has 'section-title', and       *)
(* whether it contains a .time-limit or .memory-limit element.             *)
(***************************************************************************)
MaxElements == 3

\* the least trimmed length of an appended block is above this
DescriptionMinimum == 20

\* no block is appended once the description is longer than this
DescriptionLimit == 200

Element(text, sectionTitle, limit) ==
  [text |-> text, sectionTitle |-> sectionTitle, limit |-> limit]

\* what the first selector may match
StatementDivs ==
  { Element(Rep("a", DescriptionMinimum + 1), FALSE, "none"),
    Element(Rep("a", DescriptionMinimum), FALSE, "none"),
    Element(Rep("b", 150), FALSE, "none"),
    Element(Rep("c", DescriptionLimit - 1), FALSE, "none"),
    Element(Rep("d", 30), TRUE, "none"),
    Element(Rep("e", 30), FALSE, "time"),
    Element(Rep("f", 30), FALSE, "memory"),
    Element(<< "x" >> \o Rep(" ", 25) \o << "\n", "y", " " >>, FALSE, "none") }

RECURSIVE ElementLists(_)
ElementLists(k) ==
  IF k = 0 THEN { <<>> }
  ELSE LET shorter == ElementLists(k - 1)
       IN  shorter \cup { Append(l, e) : l \in shorter, e \in StatementDivs }

\* what the second and the third selector may match
Paragraphs == { <<>>, << Element(Rep("p", 40), FALSE, "none") >> }

HolderDivs == { <<>>, << Element(Rep("q", 40), FALSE, "none") >> }

\* text.replace(/\s+/g, ' ') on the positions lo..hi of t: a character that
\* is no white space stays, and a run of white space becomes one blank at
\* its first position (the second replace finds no line break left)
RECURSIVE collapse(_, _, _)
collapse(t, lo, hi) ==
  IF lo > hi THEN <<>>
  ELSE IF lo = hi
  THEN IF ~IsSpace(t[lo]) THEN << t[lo] >>
       ELSE IF lo > 1 /\ IsSpace(t[lo - 1]) THEN <<>>
       ELSE << " " >>
  ELSE LET mid == (lo + hi) \div 2
       IN  collapse(t, lo, mid) \o collapse(t, mid + 1, hi)

\* cleanText of page.evaluate
cleanText(text) == trim(collapse(text, 1, Len(text)))

\* a variant of qualifies that takes blocks of any length
qualifiesAnyLength(element) ==
  /\ element.text # <<>>
  /\ ~element.sectionTitle
  /\ element.limit = "none"

\* the condition under which the text of an element is appended
qualifies(element) ==
  /\ element.text # <<>>
  /\ ~element.sectionTitle
  /\ element.limit # "time"
  /\ element.limit # "memory"
  /\ Len(trim(element.text)) > DescriptionMinimum

\* the loop over the elements of one selector, from the i-th on
RECURSIVE elementLoop(_, _, _)
elementLoop(elements, i, description) ==
  IF i > Len(elements) THEN description
  ELSE IF qualifies(elements[i])
  THEN LET longer == description \o cleanText(elements[i].text) \o << " " >>
       IN  IF Len(longer) > DescriptionLimit THEN longer
           ELSE elementLoop(elements, i + 1, longer)
  ELSE elementLoop(elements, i + 1, description)

\* the loop over descriptionSelectors, from the k-th on
RECURSIVE selectorLoop(_, _, _)
selectorLoop(families, k, description) ==
  IF k > Len(families) THEN description
  ELSE LET longer == elementLoop(families[k], 1, description)
       IN  IF trim(longer) # <<>> THEN longer
           ELSE selectorLoop(families, k + 1, longer)

\* description.trim(), as page.evaluate hands it to the returned object
extractDescription(families) == StringOf(trim(selectorLoop(families, 1, <<>>)))

\* a rendered document with the sample blocks bs; what the other cascades
\* find is that of a fixed page
SampleDoc(bs) ==
  [page |-> WatermelonPage, blocks |-> bs, families |-> << <<>>, <<>>, <<>> >>]

\* a rendered document without sample blocks in which the three
\* descriptionSelectors match divs, ps and holders, in their listed order
DescriptionDoc(divs, ps, holders) ==
  [page |-> EmptyPage, blocks |-> <<>>, families |-> << divs, ps, holders >>]

\* what the cascades of page.evaluate find in a document
cascades(d) ==
  [d.page EXCEPT !.description = extractDescription(d.families),
                 !.sampleTests = extractSampleTests(d.blocks)]

\* a variant of mergeProblemData that leaves the time limit at its default
mergeProblemDataDefaultLimit(apiData, detailedData, cid) ==
  [title |-> OrElse(apiData.name, detailedData.title),
   timeLimit |-> "1 second",
   memoryLimit |-> detailedData.memoryLimit,
   description |-> detailedData.description,
   inputFormat |-> detailedData.inputFormat,
   outputFormat |-> detailedData.outputFormat,
   constraints |-> detailedData.constraints,
   sampleTests |-> detailedData.sampleTests,
   source |-> "Contest " \o ToString(cid),
   difficulty |-> IF apiData.rating # Absent /\ apiData.rating[1] # 0
                  THEN Some("*" \o ToString(apiData.rating[1]))
                  ELSE detailedData.difficulty]

\* the object literal extractProblemData returns when both calls succeeded
mergeProblemData(apiData, detailedData, cid) ==
  [title |-> OrElse(apiData.name, detailedData.title),
   timeLimit |-> detailedData.timeLimit,
   memoryLimit |-> detailedData.memoryLimit,
   description |-> detailedData.description,
   inputFormat |-> detailedData.inputFormat,
   outputFormat |-> detailedData.outputFormat,
   constraints |-> detailedData.constraints,
   sampleTests |-> detailedData.sampleTests,
   source |-> "Contest " \o ToString(cid),
   difficulty |-> IF apiData.rating # Absent /\ apiData.rating[1] # 0
                  THEN Some("*" \o ToString(apiData.rating[1]))
                  ELSE detailedData.difficulty]

\* a variant of problemIndexOf without the toUpperCase call
problemIndexRaw(m) == m[2]

\* const problemIndex = urlMatch[2].toUpperCase()
problemIndexOf(m) == toUpperCase(m[2])

\* a variant of catchResult that gives up instead of falling back
catchResultRethrow(o) == Thrown("Error: API fetch failed")

\* catch (apiError) { return await this.scrapeWithOptimizedPuppeteer(url) }:
\* the outcome o of that scrape is the outcome of extractProblemData
catchResult(o) == o

\* a variant of sessionsAfterFinally that closes on the success path only
sessionsAfterReturnOnly(sessions, id, outcome) ==
  IF outcome.kind = "returned" THEN sessions \ {id} ELSE sessions

\* finally { await browser.close() }: runs whatever the try block did
sessionsAfterFinally(sessions, id, outcome) == sessions \ {id}

(***************************************************************************)
(* State of one fetchFromCodeforcesAPI call followed on its own.           *)
(***************************************************************************)
VARIABLES
  apiPc,          \* "idle", "fetch", "json" or "settled"
  reqContestId,   \* the contestId argument
  reqIndex,       \* the problemIndex argument
  apiFault,       \* "none", "network" (fetch rejected) or "json" (json() rejected)
  decoded,        \* the decoded document (Absent until json() resolves)
  apiOutcome      \* what the call returned or threw

apiVars == << apiPc, reqContestId, reqIndex, apiFault, decoded, apiOutcome >>

\* no fetchFromCodeforcesAPI call is being followed
ApiIdle ==
  /\ apiPc = "idle"
  /\ reqContestId = 0
  /\ reqIndex = <<>>
  /\ apiFault = "none"
  /\ decoded = Absent
  /\ apiOutcome = NoOutcome

(***************************************************************************)
(* State of the extraction step run on a rendered document.                *)
(***************************************************************************)
VARIABLES
  doc,            \* the rendered document handed to the extraction step
  extracted       \* the record the extraction step returned for doc

extractVars == << doc, extracted >>

\* no extraction step is being followed
ExtractionIdle ==
  /\ doc = Absent
  /\ extracted = Absent

(***************************************************************************)
(* State of several extractProblemData calls running at once, each        *)
(* followed through its awaits only.                                       *)
(***************************************************************************)
NumCalls == 2

Calls == 1..NumCalls

VARIABLES
  calls,          \* for each call, where it stands and what it holds
  open,           \* the browser sessions that are running
  latest          \* the session launched last (Absent before the first)

concVars == << calls, open, latest >>

\* a call that has not been made
IdleCall ==
  [pc |-> "idle", inTry |-> FALSE, scrapes |-> 0, browser |-> Absent,
   pending |-> [kind |-> "none", page |-> 0],
   result |-> [kind |-> "none", page |-> 0]]

\* no call has been made
ConcIdle ==
  /\ calls = [c \in Calls |-> IdleCall]
  /\ open = {}
  /\ latest = Absent

(***************************************************************************)
(* State of the provider's panel and of the showProblem calls.             *)
(***************************************************************************)
VARIABLES
  panel,          \* this.panel: Absent (undefined) or the panel held
  panels,         \* the panels that exist in the window
  html,           \* webview.html of every panel created so far
  reveals,        \* the reveal calls made on every panel created so far
  shows           \* the showProblem calls in the order they were issued

panelVars == << panel, panels, html, reveals, shows >>

\* the provider as constructed: no panel, no call
PanelIdle ==
  /\ panel = Absent
  /\ panels = {}
  /\ html = <<>>
  /\ reveals = <<>>
  /\ shows = <<>>

\* everything an extractProblemData call leaves alone
otherVars == << apiVars, extractVars, concVars, panelVars >>

(***************************************************************************)
(* State of one extractProblemData call.                                   *)
(***************************************************************************)
VARIABLES
  pc,             \* where extractProblemData is: "idle", "api_fetch",
                  \* "api_json", "try_scrape", "catch_scrape", "returned",
                  \* "thrown"
  url,            \* the argument of the call
  contestId,      \* parseInt(urlMatch[1])
  problemIndex,   \* urlMatch[2].toUpperCase()
  apiCalls,       \* invocations of fetchFromCodeforcesAPI by this call
  apiResult,      \* outcome of the fetchFromCodeforcesAPI invocation
  scrapeCalls,    \* invocations of scrapeWithOptimizedPuppeteer by this call
  spc,            \* where the running scrapeWithOptimizedPuppeteer is
  openSessions,   \* browser sessions launched and not yet closed
  waited,         \* how the readiness wait of the running scrape ended:
                  \* "none", "ready" or "timeout"
  seenPage,       \* what the cascades of the last resolved page.evaluate
                  \* found in the page (Absent before the first one)
  pending,        \* outcome of the scrape's try/catch, held during finally
  scrapeResults,  \* outcomes of the finished scrape invocations, in order
  result          \* outcome of extractProblemData

callVars ==
  << pc, url, contestId, problemIndex, apiCalls, apiResult, scrapeCalls, spc,
     openSessions, waited, seenPage, pending, scrapeResults, result >>

vars == << callVars, otherVars >>

\* everything a fetchFromCodeforcesAPI call followed on its own leaves alone
notApiVars == << callVars, extractVars, concVars, panelVars >>

\* everything the page.evaluate callback leaves alone
notExtractVars == << callVars, apiVars, concVars, panelVars >>

\* everything concurrent calls leave alone
notConcVars == << callVars, apiVars, extractVars, panelVars >>

\* everything showProblem and the panel's events leave alone
notPanelVars == << callVars, apiVars, extractVars, concVars >>

\* the awaited calls between newPage and goto, in program order
SetupSteps == << "newPage", "setRequestInterception", "setViewport", "setUserAgent" >>

\* the state before extractProblemData is called
CallIdle ==
  /\ pc = "idle"
  /\ url = <<>>
  /\ contestId = 0
  /\ problemIndex = <<>>
  /\ apiCalls = 0
  /\ apiResult = NoOutcome
  /\ scrapeCalls = 0
  /\ spc = "none"
  /\ openSessions = {}
  /\ waited = "none"
  /\ seenPage = Absent
  /\ pending = NoOutcome
  /\ scrapeResults = <<>>
  /\ result = NoOutcome

(***************************************************************************)
(* extractProblemData is called with a URL u: the URL match, then the call *)
(* of fetchFromCodeforcesAPI, which runs up to its first await (fetch).    *)
(***************************************************************************)
extractProblemData ==
  /\ pc = "idle"
  /\ \E u \in Urls :
       /\ url' = u
       /\ LET m == urlMatch(u)
          IN  IF m = NoMatch
              THEN /\ pc' = "thrown"
                   /\ result' = Thrown("Error: Invalid Codeforces problem URL format")
                   /\ UNCHANGED << contestId, problemIndex, apiCalls >>
              ELSE /\ contestId' = parseInt(m[1])
                   /\ problemIndex' = problemIndexOf(m)
                   /\ apiCalls' = apiCalls + 1
                   /\ pc' = "api_fetch"
                   /\ UNCHANGED result
  /\ UNCHANGED << apiResult, scrapeCalls, spc, openSessions, waited, seenPage,
                  pending, scrapeResults, otherVars >>

\* fetchFromCodeforcesAPI settles with outcome o.  A returned record sends
\* extractProblemData on to the scrape of its try block; a thrown error is
\* caught by catch (apiError), whose body invokes the scrape.
ApiSettles(o) ==
  /\ apiResult' = o
  /\ pc' = IF o.kind = "returned" THEN "try_scrape" ELSE "catch_scrape"
  /\ scrapeCalls' = scrapeCalls + 1
  /\ spc' = "launch"
  /\ UNCHANGED << url, contestId, problemIndex, apiCalls, openSessions,
                  waited, seenPage, pending, scrapeResults, result, otherVars >>

\* await fetch(apiUrl) rejects: a network error
ApiFetchRejects ==
  /\ pc = "api_fetch"
  /\ ApiSettles(Thrown("Failed to fetch from Codeforces API: TypeError: fetch failed"))

\* await fetch(apiUrl) resolves with a response
ApiFetchResolves ==
  /\ pc = "api_fetch"
  /\ pc' = "api_json"
  /\ UNCHANGED << url, contestId, problemIndex, apiCalls, apiResult,
                  scrapeCalls, spc, openSessions, waited, seenPage, pending,
                  scrapeResults, result, otherVars >>

\* await response.json() rejects: the body is not JSON
ApiJsonRejects ==
  /\ pc = "api_json"
  /\ ApiSettles(Thrown("Failed to fetch from Codeforces API: SyntaxError: Unexpected token"))

\* await response.json() resolves; the rest of the function is synchronous
ApiJsonResolves ==
  /\ pc = "api_json"
  /\ \E data \in ApiDocumentsUpTo(MaxListed) :
       ApiSettles(fetchFromCodeforcesAPI(data, contestId, problemIndex))

(***************************************************************************)
(* scrapeWithOptimizedPuppeteer.  The session it launches is named by the  *)
(* number of the invocation.                                               *)
(***************************************************************************)
Scraping == pc \in {"try_scrape", "catch_scrape"}

\* the running scrape settles with outcome o.  In the try block a value is
\* merged with the API record and returned, and an error is caught by
\* catch (apiError), whose body invokes the scrape again; in the catch
\* block the outcome of the scrape is the outcome of extractProblemData.
ScrapeSettles(o) ==
  /\ scrapeResults' = Append(scrapeResults, o)
  /\ pending' = NoOutcome
  /\ waited' = "none"
  /\ IF pc = "try_scrape"
     THEN IF o.kind = "returned"
          THEN /\ pc' = "returned"
               /\ result' = Returned(mergeProblemData(apiResult.value[1], o.value[1], contestId))
               /\ spc' = "none"
               /\ UNCHANGED scrapeCalls
          ELSE /\ pc' = "catch_scrape"
               /\ spc' = "launch"
               /\ scrapeCalls' = scrapeCalls + 1
               /\ UNCHANGED result
     ELSE /\ pc' = catchResult(o).kind
          /\ result' = catchResult(o)
          /\ spc' = "none"
          /\ UNCHANGED scrapeCalls
  /\ UNCHANGED << url, contestId, problemIndex, apiCalls, apiResult, seenPage,
                  otherVars >>

\* an awaited call inside the try block rejects with error e: the catch
\* wraps it, and the finally block is entered with the wrapped error
TryBlockThrows(e) ==
  /\ pending' = Thrown("Failed to scrape problem data: " \o e)
  /\ spc' = "close"
  /\ UNCHANGED << pc, url, contestId, problemIndex, apiCalls, apiResult,
                  scrapeCalls, openSessions, waited, seenPage, scrapeResults,
                  result, otherVars >>

\* the awaited call at spc resolves and the scrape moves on to step next
TryBlockStep(next) ==
  /\ spc' = next
  /\ UNCHANGED << pc, url, contestId, problemIndex, apiCalls, apiResult,
                  scrapeCalls, openSessions, seenPage, pending, scrapeResults,
                  result, otherVars >>

\* await puppeteer.launch(...) rejects: outside the try, nothing to close
LaunchRejects ==
  /\ Scraping /\ spc = "launch"
  /\ UNCHANGED openSessions
  /\ ScrapeSettles(Thrown("Error: Failed to launch the browser process"))

\* await puppeteer.launch(...) resolves with a new session
LaunchResolves ==
  /\ Scraping /\ spc = "launch"
  /\ openSessions' = openSessions \cup {scrapeCalls}
  /\ spc' = SetupSteps[1]
  /\ UNCHANGED << pc, url, contestId, problemIndex, apiCalls, apiResult,
                  scrapeCalls, waited, seenPage, pending, scrapeResults, result,
                  otherVars >>

\* newPage, setRequestInterception, setViewport or setUserAgent resolves
SetupResolves ==
  /\ Scraping
  /\ \E i \in 1..Len(SetupSteps) :
       /\ spc = SetupSteps[i]
       /\ UNCHANGED waited
       /\ TryBlockStep(IF i < Len(SetupSteps) THEN SetupSteps[i + 1] ELSE "goto")

\* newPage, setRequestInterception, setViewport or setUserAgent rejects
SetupRejects ==
  /\ Scraping
  /\ \E i \in 1..Len(SetupSteps) : spc = SetupSteps[i]
  /\ TryBlockThrows("Error: Protocol error")

\* page.goto resolves: DOMContentLoaded within the timeout
GotoResolves ==
  /\ Scraping /\ spc = "goto"
  /\ UNCHANGED waited
  /\ TryBlockStep("waitForFunction")

\* page.goto rejects with a navigation error
GotoRejects ==
  /\ Scraping /\ spc = "goto"
  /\ TryBlockThrows("Error: net::ERR_NAME_NOT_RESOLVED")

\* page.goto rejects because its timeout (20000 ms) ran out
GotoTimeout ==
  /\ Scraping /\ spc = "goto"
  /\ TryBlockThrows("TimeoutError: Navigation timeout of 20000 ms exceeded")

\* page.waitForFunction resolves: the page shows a statement container or
\* the text Input or Output
WaitResolves ==
  /\ Scraping /\ spc = "waitForFunction"
  /\ waited' = "ready"
  /\ TryBlockStep("evaluate")

\* a variant of WaitTimeout without the inner try: the outer catch wraps
\* the timeout error
WaitTimeoutFatal ==
  /\ Scraping /\ spc = "waitForFunction"
  /\ waited' = "timeout"
  /\ pending' = Thrown("Failed to scrape problem data: TimeoutError: Waiting failed: 10000ms exceeded")
  /\ spc' = "close"
  /\ UNCHANGED << pc, url, contestId, problemIndex, apiCalls, apiResult,
                  scrapeCalls, openSessions, seenPage, scrapeResults, result,
                  otherVars >>

\* page.waitForFunction rejects because its timeout (10000 ms) ran out;
\* the inner catch swallows the error
WaitTimeout ==
  /\ Scraping /\ spc = "waitForFunction"
  /\ waited' = "timeout"
  /\ TryBlockStep("evaluate")

\* page.evaluate resolves with the record extracted from the page
EvaluateResolves ==
  /\ Scraping /\ spc = "evaluate"
  /\ \E page \in Pages :
       /\ seenPage' = Some(page)
       /\ pending' = Returned(evaluateReturn(page))
  /\ spc' = "close"
  /\ UNCHANGED << pc, url, contestId, problemIndex, apiCalls, apiResult,
                  scrapeCalls, openSessions, waited, scrapeResults, result,
                  otherVars >>

\* page.evaluate rejects
EvaluateRejects ==
  /\ Scraping /\ spc = "evaluate"
  /\ TryBlockThrows("Error: Evaluation failed")

\* finally { await browser.close() }, after which the scrape settles with
\* the outcome of its try/catch
BrowserClose ==
  /\ Scraping /\ spc = "close"
  /\ openSessions' = sessionsAfterFinally(openSessions, scrapeCalls, pending)
  /\ ScrapeSettles(pending)

(***************************************************************************)
(* Specifications.                                                         *)
(***************************************************************************)
\* steps that need an answer from a remote party (the API server, the site)
RemoteNext ==
  \/ ApiFetchRejects
  \/ ApiFetchResolves
  \/ ApiJsonRejects
  \/ ApiJsonResolves
  \/ GotoResolves
  \/ GotoRejects
  \/ WaitResolves

\* steps of the local browser process and the timers the code sets
LocalNext ==
  \/ LaunchRejects
  \/ LaunchResolves
  \/ SetupResolves
  \/ SetupRejects
  \/ GotoTimeout
  \/ WaitTimeout
  \/ EvaluateResolves
  \/ EvaluateRejects
  \/ BrowserClose

Init == CallIdle /\ ApiIdle /\ ExtractionIdle /\ ConcIdle /\ PanelIdle

Next ==
  \/ extractProblemData
  \/ RemoteNext
  \/ LocalNext

Spec == Init /\ [][Next]_vars

\* the local browser process keeps running and the timers the code sets
\* fire; a remote party need not ever answer
FairSpec == Spec /\ WF_vars(LocalNext)

(***************************************************************************)
(* One fetchFromCodeforcesAPI call followed on its own, with the document  *)
(* the remote API answered kept in the state.                              *)
(***************************************************************************)
\* fetchFromCodeforcesAPI(contestId, problemIndex) is called
ApiCall ==
  /\ apiPc = "idle"
  /\ \E cid \in ApiContestIds, idx \in ApiIndexes :
       /\ reqContestId' = cid
       /\ reqIndex' = idx
  /\ apiPc' = "fetch"
  /\ UNCHANGED << apiFault, decoded, apiOutcome, notApiVars >>

\* await fetch(apiUrl) rejects; the catch wraps the error
FetchRejects ==
  /\ apiPc = "fetch"
  /\ apiFault' = "network"
  /\ apiOutcome' = Thrown("Failed to fetch from Codeforces API: TypeError: fetch failed")
  /\ apiPc' = "settled"
  /\ UNCHANGED << reqContestId, reqIndex, decoded, notApiVars >>

\* await fetch(apiUrl) resolves with a response
FetchResolves ==
  /\ apiPc = "fetch"
  /\ apiPc' = "json"
  /\ UNCHANGED << reqContestId, reqIndex, apiFault, decoded, apiOutcome,
                  notApiVars >>

\* await response.json() rejects; the catch wraps the error
JsonRejects ==
  /\ apiPc = "json"
  /\ apiFault' = "json"
  /\ apiOutcome' = Thrown("Failed to fetch from Codeforces API: SyntaxError: Unexpected token")
  /\ apiPc' = "settled"
  /\ UNCHANGED << reqContestId, reqIndex, decoded, notApiVars >>

\* await response.json() resolves to a document; the status check and the
\* scan follow synchronously
JsonResolves ==
  /\ apiPc = "json"
  /\ \E d \in ApiDocuments :
       /\ decoded' = Some(d)
       /\ apiOutcome' = fetchFromCodeforcesAPI(d, reqContestId, reqIndex)
  /\ apiPc' = "settled"
  /\ UNCHANGED << reqContestId, reqIndex, apiFault, notApiVars >>

ApiNext ==
  \/ ApiCall
  \/ FetchRejects
  \/ FetchResolves
  \/ JsonRejects
  \/ JsonResolves

ApiSpec == Init /\ [][ApiNext]_vars

(***************************************************************************)
(* The page.evaluate callback run on a rendered document.                  *)
(***************************************************************************)
\* page.evaluate is about to run on the document d
Rendered(d) ==
  /\ CallIdle
  /\ ApiIdle
  /\ ConcIdle
  /\ PanelIdle
  /\ doc = Some(d)
  /\ extracted = Absent

\* the sample blocks of the document vary
SampleInit == \E bs \in BlockLists(MaxBlocks) : Rendered(SampleDoc(bs))

\* the description blocks of the document vary
DescriptionInit ==
  \E divs \in ElementLists(MaxElements), ps \in Paragraphs, holders \in HolderDivs :
     Rendered(DescriptionDoc(divs, ps, holders))

\* page.evaluate runs the callback in the page and resolves to its return
\* value
evaluate ==
  /\ doc # Absent
  /\ extracted = Absent
  /\ extracted' = Some(evaluateReturn(cascades(doc[1])))
  /\ UNCHANGED << doc, notExtractVars >>

ExtractNext == evaluate

SampleSpec == SampleInit /\ [][ExtractNext]_vars

DescriptionSpec == DescriptionInit /\ [][ExtractNext]_vars

(***************************************************************************)
(* Several extractProblemData calls at once.  A session is named by the    *)
(* call that launched it and the number of that call's scrape; the page a  *)
(* session shows is the page of the call that navigated it.                *)
(***************************************************************************)
NoData == [kind |-> "none", page |-> 0]

\* a variant of closeTarget for a session kept in a field of the provider,
\* which holds the session launched last
closeTargetShared(local, shared) == shared

\* the session browser.close() in the finally block closes: the one held
\* in the const browser of this invocation
closeTarget(local, shared) == local

\* the scrape of call c settles with outcome o: in the try block data is
\* merged and returned and an error starts the scrape of the catch block;
\* in the catch block the outcome is the outcome of the call
ConcSettles(c, o) ==
  calls' =
    [calls EXCEPT ![c] =
       IF @.inTry
       THEN IF o.kind = "data"
            THEN [@ EXCEPT !.pc = "done", !.browser = Absent, !.pending = NoData,
                           !.result = [kind |-> "merged", page |-> o.page]]
            ELSE [@ EXCEPT !.pc = "launch", !.inTry = FALSE, !.scrapes = @ + 1,
                           !.browser = Absent, !.pending = NoData]
       ELSE [@ EXCEPT !.pc = "done", !.browser = Absent, !.pending = NoData,
                      !.result = IF o.kind = "data"
                                 THEN [kind |-> "scraped", page |-> o.page]
                                 ELSE [kind |-> "thrown", page |-> 0]]]

\* extractProblemData is called: an invalid URL throws at once, a valid one
\* reaches the await of the API call
ConcCall ==
  \E c \in Calls :
     /\ calls[c].pc = "idle"
     /\ \E valid \in BOOLEAN :
          calls' = [calls EXCEPT ![c] =
                      IF valid THEN [@ EXCEPT !.pc = "api"]
                      ELSE [@ EXCEPT !.pc = "done",
                                     !.result = [kind |-> "thrown", page |-> 0]]]
     /\ UNCHANGED << open, latest, notConcVars >>

\* the API call of a call settles, and the call goes on to launch a
\* browser: in its try block if the API returned, in its catch block if not
ConcApiSettles ==
  \E c \in Calls :
     /\ calls[c].pc = "api"
     /\ \E ok \in BOOLEAN :
          calls' = [calls EXCEPT ![c] =
                      [@ EXCEPT !.pc = "launch", !.inTry = ok, !.scrapes = 1]]
     /\ UNCHANGED << open, latest, notConcVars >>

\* puppeteer.launch rejects
ConcLaunchRejects ==
  \E c \in Calls :
     /\ calls[c].pc = "launch"
     /\ ConcSettles(c, [kind |-> "error", page |-> 0])
     /\ UNCHANGED << open, latest, notConcVars >>

\* puppeteer.launch resolves with a new session, kept in const browser
ConcLaunchResolves ==
  \E c \in Calls :
     /\ calls[c].pc = "launch"
     /\ LET session == << c, calls[c].scrapes >>
        IN  /\ open' = open \cup {session}
            /\ latest' = Some(session)
            /\ calls' = [calls EXCEPT ![c] =
                           [@ EXCEPT !.pc = "page", !.browser = Some(session)]]
     /\ UNCHANGED notConcVars

\* the awaits from browser.newPage to page.evaluate, all on the page of
\* the session in const browser: they yield the data of that page, or one
\* of them rejects
ConcPageWork ==
  \E c \in Calls :
     /\ calls[c].pc = "page"
     /\ \E ok \in BOOLEAN :
          calls' = [calls EXCEPT ![c] =
                      [@ EXCEPT !.pc = "close",
                                !.pending = IF ok
                                            THEN [kind |-> "data",
                                                  page |-> calls[c].browser[1][1]]
                                            ELSE [kind |-> "error", page |-> 0]]]
     /\ UNCHANGED << open, latest, notConcVars >>

\* finally: browser.close(), then the scrape settles
ConcBrowserClose ==
  \E c \in Calls :
     /\ calls[c].pc = "close"
     /\ open' = open \ {closeTarget(calls[c].browser[1], latest[1])}
     /\ ConcSettles(c, calls[c].pending)
     /\ UNCHANGED << latest, notConcVars >>

ConcNext ==
  \/ ConcCall
  \/ ConcApiSettles
  \/ ConcLaunchRejects
  \/ ConcLaunchResolves
  \/ ConcPageWork
  \/ ConcBrowserClose

ConcSpec == Init /\ [][ConcNext]_vars

(***************************************************************************)
(* showProblem and the panel.  A panel is named by its number in the order *)
(* of creation; html[p] is what the webview of panel p shows.              *)
(***************************************************************************)
MaxShows == 3

\* the html getWebviewContent makes of the data the k-th call extracted
ContentOf(k) == "ProblemData of call " \o ToString(k)

\* the html getWebviewContent makes of getDummyProblemData()
DummyContent == "ProblemData of getDummyProblemData"

\* a showProblem call: whether it was given a URL, where it stands, and the
\* value of this.panel it read when it reached the assignment of the html
Show(withUrl, at, target) == [withUrl |-> withUrl, pc |-> at, target |-> target]

\* showProblem is called, with or without a URL.  It reveals the panel it
\* holds or creates one and registers the dispose handler; with a URL it
\* then awaits the extraction, without one it assigns the html of the dummy
\* data before it returns.
showProblem ==
  /\ Len(shows) < MaxShows
  /\ LET create == panel = Absent
         created == Len(html) + 1
         held == IF create THEN Some(created) ELSE panel
         shown == IF create THEN Append(html, "") ELSE html
     IN  /\ panel' = held
         /\ panels' = IF create THEN panels \cup {created} ELSE panels
         /\ reveals' = IF create THEN Append(reveals, 0)
                                 ELSE [reveals EXCEPT ![panel[1]] = @ + 1]
         /\ \E withUrl \in BOOLEAN :
              IF withUrl
              THEN /\ html' = shown
                   /\ shows' = Append(shows, Show(TRUE, "awaiting", Absent))
              ELSE /\ html' = [shown EXCEPT ![held[1]] = DummyContent]
                   /\ shows' = Append(shows, Show(FALSE, "written", held))
  /\ UNCHANGED notPanelVars

\* the extraction a call awaits returns, and the call goes on to the
\* assignment this.panel.webview.html = ..., which throws a TypeError when
\* this.panel is undefined
ExtractionReturns ==
  /\ \E k \in 1..Len(shows) :
       /\ shows[k].pc = "awaiting"
       /\ IF panel = Absent
          THEN /\ shows' = [shows EXCEPT ![k] = Show(TRUE, "crashed", panel)]
               /\ UNCHANGED html
          ELSE /\ shows' = [shows EXCEPT ![k] = Show(TRUE, "written", panel)]
               /\ html' = [html EXCEPT ![panel[1]] = ContentOf(k)]
  /\ UNCHANGED << panel, panels, reveals, notPanelVars >>

\* the extraction a call awaits throws, and showProblem rejects
ExtractionThrows ==
  /\ \E k \in 1..Len(shows) :
       /\ shows[k].pc = "awaiting"
       /\ shows' = [shows EXCEPT ![k] = Show(TRUE, "rejected", Absent)]
  /\ UNCHANGED << panel, panels, html, reveals, notPanelVars >>

\* a disposal whose handler leaves this.panel as it is
DisposeLeavesHeld ==
  /\ \E p \in panels : panels' = panels \ {p}
  /\ UNCHANGED << panel, html, reveals, shows, notPanelVars >>

\* the user closes a panel: it is disposed, and its onDidDispose handler
\* sets this.panel to undefined
Dispose ==
  /\ \E p \in panels : panels' = panels \ {p}
  /\ panel' = Absent
  /\ UNCHANGED << html, reveals, shows, notPanelVars >>

PanelNext ==
  \/ showProblem
  \/ ExtractionReturns
  \/ ExtractionThrows
  \/ Dispose

PanelSpec == Init /\ [][PanelNext]_vars

TypeOK ==
  /\ pc \in {"idle", "api_fetch", "api_json", "try_scrape", "catch_scrape", "returned", "thrown"}
  /\ apiCalls \in 0..1
  /\ scrapeCalls \in 0..2
  /\ openSessions \subseteq 1..2
  /\ result.kind \in {"none", "returned", "thrown"}
  /\ (pc \in {"returned", "thrown"}) <=> (result.kind = pc)

(***************************************************************************)
(* The accepted URL shapes, stated without the matcher: u has shape        *)
(* << lit1, lit2 >> at position p with n digits when it reads lit1 (in any *)
(* letter case), n >= 1 digits, lit2, and a letter.                        *)
(***************************************************************************)
Shapes == { << LitProblemset, LitSlash >>, << LitContest, LitProblem >> }

DigitSet == {"0", "1", "2", "3", "4", "5", "6", "7", "8", "9"}

\* u reads lit at position p, in any letter case
ReadsAt(u, lit, p) ==
  /\ p + Len(lit) - 1 <= Len(u)
  /\ \A i \in 1..Len(lit) : u[p + i - 1] = lit[i] \/ u[p + i - 1] = toUpperChar(lit[i])

ShapeAt(u, shape, p, n) ==
  LET q == p + Len(shape[1])
      r == q + n
      s == r + Len(shape[2])
  IN  /\ s <= Len(u)
      /\ ReadsAt(u, shape[1], p)
      /\ \A i \in q..(r - 1) : u[i] \in DigitSet
      /\ ReadsAt(u, shape[2], r)
      /\ \E k \in 1..Len(UpperCase) : u[s] = UpperCase[k] \/ u[s] = LowerCase[k]

HasShape(u) ==
  \E shape \in Shapes : \E p \in 1..Len(u) :
    /\ ReadsAt(u, shape[1], p)
    /\ \E n \in 1..(Len(u) - p) : ShapeAt(u, shape, p, n)

\* the number a digit string denotes: the sum of digit * 10^(place)
RECURSIVE Pow10(_)
Pow10(k) == IF k = 0 THEN 1 ELSE 10 * Pow10(k - 1)

DigitValue(c) == CHOOSE d \in 0..9 : DigitChars[d + 1] = c

RECURSIVE DecimalValueFrom(_, _)
DecimalValueFrom(ds, i) ==
  IF i > Len(ds) THEN 0
  ELSE DigitValue(ds[i]) * Pow10(Len(ds) - i) + DecimalValueFrom(ds, i + 1)

DecimalValue(ds) == DecimalValueFrom(ds, 1)

\* idx is the letter of u at position s in upper case, followed by the
\* digit at s + 1 when there is one
IsUpperIndexAt(idx, u, s) ==
  /\ Len(idx) = (IF s + 1 <= Len(u) /\ u[s + 1] \in DigitSet THEN 2 ELSE 1)
  /\ \E k \in 1..Len(UpperCase) :
       /\ u[s] = UpperCase[k] \/ u[s] = LowerCase[k]
       /\ idx[1] = UpperCase[k]
  /\ Len(idx) = 2 => idx[2] = u[s + 1]

\* the call threw the invalid-URL error
ThrewInvalidUrl ==
  /\ pc = "thrown"
  /\ result = Thrown("Error: Invalid Codeforces problem URL format")

\* no network activity was started by the call
NoNetworkActivity ==
  /\ apiCalls = 0
  /\ apiResult = NoOutcome
  /\ scrapeCalls = 0
  /\ scrapeResults = <<>>
  /\ openSessions = {}
  /\ spc = "none"

\* C6: for every URL that matches neither accepted shape, the call throws
\* the invalid-URL error and starts no network activity: no metadata API
\* fetch and no browser launch, then or later.
C6_InvalidUrlNoNetwork ==
  [][ /\ (pc = "idle" /\ ~HasShape(url')) => (ThrewInvalidUrl' /\ NoNetworkActivity')
      /\ ThrewInvalidUrl => (ThrewInvalidUrl' /\ NoNetworkActivity') ]_vars

\* C6 witness: a call with a URL that nearly has the contest shape (no
\* digits between "/contest/" and "/problem/") has thrown
C6_Witness ==
  /\ ThrewInvalidUrl
  /\ url = Host \o LitContest \o LitProblem \o PieceLower
  /\ ~HasShape(url)

\* the reference parsed from url: the problem index is the matched letter
\* in upper case (plus the optional digit) and contestId is the number the
\* matched digit segment denotes
ParsedFromShape ==
  \E shape \in Shapes : \E p \in 1..Len(url) :
    /\ ReadsAt(url, shape[1], p)
    /\ \E n \in 1..(Len(url) - p) :
         /\ ShapeAt(url, shape, p, n)
         /\ contestId = DecimalValue(SubSeq(url, p + Len(shape[1]), p + Len(shape[1]) + n - 1))
         /\ IsUpperIndexAt(problemIndex, url, p + Len(shape[1]) + n + Len(shape[2]))

\* C7: for every URL matching an accepted shape, parsing succeeds, the
\* problem index is upper case and contestId is the numeric value of the
\* digit segment of the matched shape; the parsed reference is kept for
\* the rest of the call.
C7_ParsedReference ==
  [][ /\ (pc = "idle" /\ HasShape(url')) => (pc' = "api_fetch" /\ ParsedFromShape')
      /\ pc # "idle" => UNCHANGED << url, contestId, problemIndex >> ]_vars

\* C7 witness: the lower-case index of /contest/12/problem/a was parsed to
\* contest 12, index A
C7_Witness ==
  /\ pc = "api_fetch"
  /\ url = Host \o LitContest \o PieceTwelve \o LitProblem \o PieceLower
  /\ contestId = 12
  /\ problemIndex = << "A" >>

(***************************************************************************)
(* The orchestrator's handling of the two sources.                         *)
(***************************************************************************)
Completed == pc \in {"returned", "thrown"}

\* the outcome of the last scrape invocation that finished
LastScrape == scrapeResults[Len(scrapeResults)]

\* C1: for every scrape attempt of the call, if the attempt throws then
\* extractProblemData throws and returns no ProblemData, whether the
\* metadata fetch succeeded or failed before it.
C1_ScrapeFailureFails ==
  (Completed /\ \E i \in 1..Len(scrapeResults) : scrapeResults[i].kind = "thrown")
     => (pc = "thrown" /\ result.value = Absent)

\* C2: within one call fetchFromCodeforcesAPI is invoked at most once and
\* scrapeWithOptimizedPuppeteer is invoked at most once.
C2_NoRetries == apiCalls <= 1 /\ scrapeCalls <= 1

\* C3: a session launched by a scrape invocation is closed before that
\* invocation returns or throws: while no invocation is past its launch
\* no session is open, no session but that of the running invocation is
\* ever open, and none is open once extractProblemData has completed.
C3_SessionsReleased ==
  /\ openSessions \subseteq {scrapeCalls}
  /\ spc \in {"none", "launch"} => openSessions = {}
  /\ (pc = "idle" \/ Completed) => openSessions = {}

\* C3 witness: the call completed after two invocations, the first ended
\* by the navigation timeout and the second by a normal return, and no
\* session is open
C3_Witness ==
  /\ Completed
  /\ Len(scrapeResults) = 2
  /\ scrapeResults[1] = Thrown("Failed to scrape problem data: TimeoutError: Navigation timeout of 20000 ms exceeded")
  /\ scrapeResults[2].kind = "returned"
  /\ openSessions = {}

\* C4: if fetchFromCodeforcesAPI failed and the scrape succeeds, the call
\* does not throw: it returns exactly the scraped ProblemData, whose source
\* is 'Codeforces' and whose difficulty is absent.
C4_FallbackReturnsScraped ==
  (apiResult.kind = "thrown" /\ scrapeResults # <<>> /\ LastScrape.kind = "returned")
     => /\ pc = "returned"
        /\ result = LastScrape
        /\ result.value[1].source = "Codeforces"
        /\ result.value[1].difficulty = Absent

\* C4 witness: the problem was not in the API's list, the page was scraped,
\* and the call returned the scraped record
C4_Witness ==
  /\ pc = "returned"
  /\ apiResult = Thrown("Failed to fetch from Codeforces API: Error: Problem not found in API")
  /\ result.value[1].title = "Theatre Square"
  /\ result.value[1].source = "Codeforces"

\* C5: every extractProblemData call eventually returns or throws.
C5_EveryCallCompletes == (pc # "idle") ~> Completed

\* C8: whenever the metadata lookup returned a record with a non-empty
\* name and the call returns a ProblemData, the returned title is the
\* metadata name.
C8_TitleFromMetadata ==
  (pc = "returned" /\ apiResult.kind = "returned" /\ apiResult.value[1].name # "")
     => result.value[1].title = apiResult.value[1].name

\* C9: when the metadata lookup and the scrape both succeed, the returned
\* difficulty is '*' followed by the rating when the record has a rating,
\* and otherwise the scraped difficulty, which is absent.
C9_DifficultyFromRating ==
  (pc = "returned" /\ apiResult.kind = "returned")
     => result.value[1].difficulty =
          IF apiResult.value[1].rating # Absent
          THEN Some("*" \o ToString(apiResult.value[1].rating[1]))
          ELSE LastScrape.value[1].difficulty

\* the fields the merge copies from the scraped record
FrameFieldsFromScrape ==
  LET r == result.value[1]
      d == LastScrape.value[1]
  IN  /\ r.timeLimit = d.timeLimit
      /\ r.memoryLimit = d.memoryLimit
      /\ r.description = d.description
      /\ r.inputFormat = d.inputFormat
      /\ r.outputFormat = d.outputFormat
      /\ r.constraints = d.constraints
      /\ r.sampleTests = d.sampleTests

\* C10 as stated: when the metadata lookup and the scrape both succeed,
\* every field other than title and difficulty, source included, equals
\* the value of that field in the scraped result.
C10_OtherFieldsFromScrape ==
  (pc = "returned" /\ apiResult.kind = "returned")
     => /\ LastScrape.kind = "returned"
        /\ FrameFieldsFromScrape
        /\ result.value[1].source = LastScrape.value[1].source

\* C10 amended: when the metadata lookup and the scrape both succeed,
\* timeLimit, memoryLimit, description, inputFormat, outputFormat,
\* constraints and sampleTests equal the values of the scraped result
\* (source does not: the merge sets it to 'Contest <contestId>').
C10_FrameFieldsFromScrape ==
  (pc = "returned" /\ apiResult.kind = "returned")
     => /\ LastScrape.kind = "returned"
        /\ FrameFieldsFromScrape

\* C10 witness: a merged result whose limits and samples are those of the
\* scraped page and whose source names the contest
C10_Witness ==
  /\ pc = "returned"
  /\ apiResult.kind = "returned"
  /\ Len(scrapeResults) = 1
  /\ result.value[1].timeLimit = "2 seconds"
  /\ result.value[1].sampleTests = << [input |-> "6 6 4", output |-> "4"] >>
  /\ result.value[1].source = "Contest 12"

(***************************************************************************)
(* fetchFromCodeforcesAPI                                                  *)
(***************************************************************************)
\* some entry of the decoded document has both contestId and index equal
\* to the requested ones
HasRequestedEntry ==
  \E i \in 1..Len(decoded[1].problems) :
     /\ decoded[1].problems[i].contestId = reqContestId
     /\ decoded[1].problems[i].index = reqIndex

\* C11: fetchFromCodeforcesAPI throws, and returns no record, when the
\* network call or the JSON decoding fails, when the status of the
\* document is not 'OK', and when no entry of result.problems has both
\* contestId and index equal to the requested ones; a record it returns
\* has the requested contestId and index.
C11_ApiFailsOrMatches ==
  apiPc = "settled" =>
     /\ apiOutcome.kind \in {"returned", "thrown"}
     /\ apiFault # "none" => apiOutcome.kind = "thrown"
     /\ (decoded # Absent /\ decoded[1].status # "OK") => apiOutcome.kind = "thrown"
     /\ (decoded # Absent /\ ~HasRequestedEntry) => apiOutcome.kind = "thrown"
     /\ apiOutcome.kind = "thrown" => apiOutcome.value = Absent
     /\ apiOutcome.kind = "returned" =>
          /\ apiOutcome.value[1].contestId = reqContestId
          /\ apiOutcome.value[1].index = reqIndex

\* C11 witness: the document lists the requested contest under another
\* index before the requested entry, and the requested entry is returned
C11_Witness ==
  /\ apiPc = "settled"
  /\ reqContestId = 12
  /\ reqIndex = << "B", "1" >>
  /\ decoded # Absent
  /\ Len(decoded[1].problems) = 2
  /\ decoded[1].problems[1].contestId = 12
  /\ decoded[1].problems[1].index = << "A" >>
  /\ apiOutcome.kind = "returned"
  /\ apiOutcome.value[1] = decoded[1].problems[2]

(***************************************************************************)
(* The extraction of sample tests                                          *)
(***************************************************************************)
\* the blocks of the document and the sample tests extracted from it
DocBlocks == doc[1].blocks

ExtractedTests == extracted[1].sampleTests

\* C12: no extracted sample test has an empty input or output, and none
\* has an input or output longer than 200 characters.
C12_SamplePairsBounded ==
  extracted # Absent =>
     \A k \in 1..Len(ExtractedTests) :
        /\ ExtractedTests[k].input # ""
        /\ ExtractedTests[k].output # ""
        /\ Len(ExtractedTests[k].input) <= SampleLimit
        /\ Len(ExtractedTests[k].output) <= SampleLimit

\* C12 witness: a pair with an output of 201 characters was passed over
\* and a pair with an input of 199 characters was taken
C12_Witness ==
  /\ extracted # Absent
  /\ \E k \in 1..Len(DocBlocks) :
        DocBlocks[k].pres = << Rep("y", SampleLimit + 1) >>
  /\ Len(ExtractedTests) = 1
  /\ Len(ExtractedTests[1].input) = SampleLimit - 1

\* the texts the a-th input selector and the b-th output selector match
InputsOf(a) == querySelectorAll(DocBlocks, inputSelectors[a])

OutputsOf(b) == querySelectorAll(DocBlocks, outputSelectors[b])

\* the positions both lists of a combination have
PositionsOf(a, b) ==
  {i \in 1..Len(InputsOf(a)) : i <= Len(OutputsOf(b))}

\* the tests made of the texts at each position of a combination
TestsOf(a, b) ==
  LET inputs == InputsOf(a)
      outputs == OutputsOf(b)
  IN  [i \in PositionsOf(a, b) |->
         [input |-> StringOf(trim(inputs[i])),
          output |-> StringOf(trim(outputs[i]))]]

\* the member of the set of numbers S with k - 1 members below it
Nth(S, k) == CHOOSE i \in S : Cardinality({j \in S : j < i}) = k - 1

\* C13: the extracted sample tests are, in strictly increasing order of
\* position, the pairs (i-th input text, i-th output text) of some
\* positions i of one selector combination, each below the shorter of the
\* two lists.
C13_PairedByPosition ==
  extracted # Absent =>
     \E a \in 1..Len(inputSelectors), b \in 1..Len(outputSelectors) :
        LET tests == TestsOf(a, b)
        IN  \E S \in SUBSET DOMAIN tests :
               /\ Cardinality(S) = Len(ExtractedTests)
               /\ \A k \in 1..Len(ExtractedTests) :
                     ExtractedTests[k] = tests[Nth(S, k)]

\* C13 witness: the first input is blank, and the one test is made of the
\* second input and the second output
C13_Witness ==
  /\ extracted # Absent
  /\ Len(InputsOf(1)) = 2
  /\ Len(OutputsOf(1)) = 2
  /\ InputsOf(1)[1] = << " ", "\n" >>
  /\ OutputsOf(1)[1] = << "Y", "E", "S" >>
  /\ ExtractedTests = << [input |-> "6", output |-> "NO"] >>

\* the positions of a combination whose trimmed texts are both non-empty
\* and both shorter than 200 characters
AcceptedPositions(a, b) ==
  LET inputs == InputsOf(a)
      outputs == OutputsOf(b)
  IN  {i \in PositionsOf(a, b) :
         /\ Len(trim(inputs[i])) \in 1..(SampleLimit - 1)
         /\ Len(trim(outputs[i])) \in 1..(SampleLimit - 1)}

\* the combinations in the order they are tried
Combinations == (1..Len(inputSelectors)) \X (1..Len(outputSelectors))

TriedBefore(c, d) == c[1] < d[1] \/ (c[1] = d[1] /\ c[2] < d[2])

\* C18: the extracted sample tests are all the accepted pairs of the first
\* combination, in the order input selectors then output selectors, that
\* has an accepted pair, and of no other combination; they are empty when
\* no combination has one.
C18_GreedyFirstMatch ==
  extracted # Absent =>
     LET yielding == {c \in Combinations : AcceptedPositions(c[1], c[2]) # {}}
     IN  IF yielding = {} THEN ExtractedTests = <<>>
         ELSE LET first == CHOOSE c \in yielding :
                              \A d \in yielding : d = c \/ TriedBefore(c, d)
                  taken == AcceptedPositions(first[1], first[2])
                  tests == TestsOf(first[1], first[2])
              IN  ExtractedTests =
                     [k \in 1..Cardinality(taken) |-> tests[Nth(taken, k)]]

\* C18 witness: the <pre> of the input block is blank, so no combination
\* with '.input pre' has a pair, and the test comes from the combination
\* of '.input' with '.output pre'
C18_Witness ==
  /\ extracted # Absent
  /\ Len(InputsOf(1)) = 1
  /\ Len(OutputsOf(1)) = 1
  /\ AcceptedPositions(1, 1) = {}
  /\ ExtractedTests = << [input |-> "Input", output |-> "YES"] >>

(***************************************************************************)
(* The extraction of the description                                       *)
(***************************************************************************)
DocFamilies == doc[1].families

\* the positions of the elements of the k-th selector that are no section
\* titles, contain no time or memory limit, and have a trimmed text longer
\* than 20 characters
Qualifying(k) ==
  {i \in 1..Len(DocFamilies[k]) :
     /\ ~DocFamilies[k][i].sectionTitle
     /\ DocFamilies[k][i].limit = "none"
     /\ Len(trim(DocFamilies[k][i].text)) > DescriptionMinimum}

\* what an element adds to the description: its cleaned text and a blank
Piece(k, i) == cleanText(DocFamilies[k][i].text) \o << " " >>

\* the length the qualifying elements of S add together
RECURSIVE LengthOf(_, _)
LengthOf(k, S) ==
  IF S = {} THEN 0
  ELSE LET i == CHOOSE j \in S : TRUE
       IN  Len(Piece(k, i)) + LengthOf(k, S \ {i})

\* C19: the description is made of the blocks of the first selector that
\* has a qualifying block, and of no other selector: its qualifying blocks
\* in document order, up to the one with which the accumulated length
\* exceeds 200 characters; it is 'Problem description' when no selector
\* has a qualifying block.
C19_DescriptionFromFirstFamily ==
  extracted # Absent =>
     LET contributing == {k \in 1..Len(DocFamilies) : Qualifying(k) # {}}
     IN  IF contributing = {} THEN extracted[1].description = "Problem description"
         ELSE LET k == CHOOSE c \in contributing : \A d \in contributing : c <= d
                  appended ==
                    {i \in Qualifying(k) :
                       LengthOf(k, {j \in Qualifying(k) : j < i}) <= DescriptionLimit}
                  pieces == [n \in 1..Cardinality(appended) |->
                               Piece(k, Nth(appended, n))]
              IN  extracted[1].description = StringOf(trim(Concat(pieces)))

\* C19 witness: two blocks of 150 characters are appended, a third
\* qualifying block of the same selector and a qualifying block of the
\* second selector are not
C19_Witness ==
  /\ extracted # Absent
  /\ Len(DocFamilies[1]) = 3
  /\ Qualifying(1) = {1, 2, 3}
  /\ Qualifying(2) = {1}
  /\ extracted[1].description =
       StringOf(Rep("b", 150) \o << " " >> \o Rep("b", 150))

(***************************************************************************)
(* Defaults of the returned record                                         *)
(***************************************************************************)
\* the call returned the merge of the API record and the scraped record
Merged ==
  /\ pc = "returned"
  /\ apiResult.kind = "returned"
  /\ scrapeResults[1].kind = "returned"

\* the seven textual fields are non-empty and the two lists are sequences
FieldsPresent ==
  LET r == result.value[1]
  IN  /\ r.title # ""
      /\ r.timeLimit # ""
      /\ r.memoryLimit # ""
      /\ r.description # ""
      /\ r.inputFormat # ""
      /\ r.outputFormat # ""
      /\ r.source # ""
      /\ DOMAIN r.constraints = 1..Len(r.constraints)
      /\ DOMAIN r.sampleTests = 1..Len(r.sampleTests)

\* the fields other than title hold their default when the page gives none
LimitsAndFormatsDefaulted ==
  LET r == result.value[1]
      p == seenPage[1]
  IN  /\ p.timeLimit = "" => r.timeLimit = "1 second"
      /\ p.memoryLimit = "" => r.memoryLimit = "256 megabytes"
      /\ p.description = "" => r.description = "Problem description"
      /\ p.inputFormat = "" => r.inputFormat = "See problem statement"
      /\ p.outputFormat = "" => r.outputFormat = "See problem statement"

\* C14 as stated: every returned ProblemData, merged or scraped only, has
\* non-empty textual fields and sequences for constraints and sampleTests,
\* and each field the page does not provide, title included, holds its
\* default string.
C14_DefaultsForMissingFields ==
  pc = "returned" =>
     /\ FieldsPresent
     /\ LimitsAndFormatsDefaulted
     /\ seenPage[1].title = "" => result.value[1].title = "Problem Title"

\* C14 amended: every returned ProblemData, merged or scraped only, has
\* non-empty textual fields and sequences for constraints and sampleTests;
\* timeLimit, memoryLimit, description, inputFormat and outputFormat hold
\* their default when the page does not provide them, and so does title,
\* except that a merged record holds the API name when that is non-empty.
C14_FieldsPresentOrDefaulted ==
  pc = "returned" =>
     /\ FieldsPresent
     /\ LimitsAndFormatsDefaulted
     /\ seenPage[1].title = "" =>
          result.value[1].title =
             IF Merged /\ apiResult.value[1].name # ""
             THEN apiResult.value[1].name
             ELSE "Problem Title"

\* C14 witness: a merged record for a page that provides nothing, with the
\* title of the API record and the defaults elsewhere
C14_Witness ==
  /\ Merged
  /\ seenPage = Some(EmptyPage)
  /\ result.value[1].title = "Watermelon"
  /\ result.value[1].memoryLimit = "256 megabytes"
  /\ result.value[1].description = "Problem description"
  /\ result.value[1].sampleTests = <<>>

(***************************************************************************)
(* The two timeouts of the scrape                                          *)
(***************************************************************************)
NavigationTimeout ==
  "Failed to scrape problem data: TimeoutError: Navigation timeout of 20000 ms exceeded"

EvaluationFailure == "Failed to scrape problem data: Error: Evaluation failed"

\* a scrape settles in this step
ScrapeSettling == Len(scrapeResults') = Len(scrapeResults) + 1

SettledOutcome == scrapeResults'[Len(scrapeResults')]

\* C15: when the readiness wait times out the scrape goes on to the
\* extraction step with no error pending, and it then returns the record
\* the extraction gives (it fails only if the extraction itself fails);
\* when the navigation times out the scrape goes to its cleanup with an
\* error, and settles with that error without the readiness wait or the
\* extraction having run.
C15_OnlyNavigationTimeoutFatal ==
  [][/\ (waited # "timeout" /\ waited' = "timeout")
          => (spc' = "evaluate" /\ pending' = NoOutcome)
     /\ (waited = "timeout" /\ ScrapeSettling)
          => \/ /\ SettledOutcome.kind = "returned"
                /\ SettledOutcome.value[1] = evaluateReturn(seenPage[1])
             \/ SettledOutcome = Thrown(EvaluationFailure)
     /\ (spc = "goto" /\ pending'.error = NavigationTimeout)
          => (spc' = "close" /\ pending'.kind = "thrown" /\ seenPage' = seenPage)
     /\ (ScrapeSettling /\ pending.error = NavigationTimeout)
          => (SettledOutcome = Thrown(NavigationTimeout) /\ waited = "none")
    ]_vars

\* C15 witness: the readiness wait timed out and the extraction returned a
\* record, which the scrape is about to return
C15_Witness ==
  /\ spc = "close"
  /\ waited = "timeout"
  /\ pending.kind = "returned"

(***************************************************************************)
(* Concurrent extractProblemData calls                                     *)
(***************************************************************************)
\* only call c moves in this step, and every session the step opens or
\* closes is one call c launched
StepOfCall(c) ==
  /\ \A d \in Calls \ {c} : calls'[d] = calls[d]
  /\ \A s \in (open' \ open) \cup (open \ open') : s[1] = c

\* the session a call holds
Held(c) == calls[c].browser[1]

\* C16: every step is the step of one call, which changes nothing another
\* call holds and opens and closes only sessions of its own; the session a
\* call works on is its own and is running, no other session is running,
\* and the data a call returns is that of its own page.
C16_CallsShareNoState ==
  /\ [](/\ \A c \in Calls :
             calls[c].browser # Absent => (Held(c)[1] = c /\ Held(c) \in open)
        /\ open = {Held(c) : c \in {d \in Calls : calls[d].browser # Absent}}
        /\ \A c \in Calls :
             calls[c].result.kind \in {"merged", "scraped"} =>
                calls[c].result.page = c)
  /\ [][\E c \in Calls : StepOfCall(c)]_vars

\* C16 witness: the first call has returned its merged data and closed its
\* session while the second call, which launched first, still works on its
\* own
C16_Witness ==
  /\ calls[1].result = [kind |-> "merged", page |-> 1]
  /\ latest = Some(<< 1, 1 >>)
  /\ calls[2].pc = "page"
  /\ open = {<< 2, 1 >>}

(***************************************************************************)
(* showProblem and the disposal of the panel                               *)
(***************************************************************************)
\* C20: whenever a showProblem call has reached the assignment of the html
\* after its extraction, this.panel was defined at that moment, however
\* the call was interleaved with disposals of the panel.
C20_PanelDefinedAtWrite ==
  \A k \in 1..Len(shows) :
     shows[k].pc \in {"written", "crashed"} => shows[k].target # Absent

(***************************************************************************)
(* C21                                                                     *)
(***************************************************************************)
\* the panel the provider holds is the only panel that exists
HeldIsOnlyPanel ==
  /\ Cardinality(panels) <= 1
  /\ panel = Absent => panels = {}
  /\ panel # Absent => panels = {panel[1]}

\* a step in which showProblem is called
ShowProblemStep == Len(shows') = Len(shows) + 1

\* a step in which a panel is disposed
DisposeStep == \E p \in panels : p \notin panels'

\* showProblem with no panel held creates exactly one new panel and holds
\* it; with a panel held it creates none and reveals the one it holds
CreatesOrReveals ==
  IF panel = Absent
  THEN /\ Len(html') = Len(html) + 1
       /\ panel' = Some(Len(html'))
       /\ panels' = panels \cup {Len(html')}
       /\ Cardinality(panels') = 1
       /\ reveals' = Append(reveals, 0)
  ELSE /\ Len(html') = Len(html)
       /\ panel' = panel
       /\ panels' = panels
       /\ reveals' = [reveals EXCEPT ![panel[1]] = reveals[panel[1]] + 1]

\* C21: at most one problem-viewer panel exists at any time, and it is the
\* one the provider holds; showProblem creates a panel only when none is
\* held and otherwise reveals the held one; a disposal resets the held
\* panel to none, so that the next showProblem creates exactly one panel.
C21_AtMostOnePanel ==
  /\ []HeldIsOnlyPanel
  /\ [][ /\ ShowProblemStep => CreatesOrReveals
         /\ DisposeStep => panel' = Absent ]_vars

\* a panel was created, revealed by a second call and disposed, and the
\* call after the disposal created the second panel, the only one now
C21_Witness ==
  /\ Len(html) = 2
  /\ reveals[1] >= 1
  /\ panel = Some(2)
  /\ panels = {2}

(***************************************************************************)
(* C22                                                                     *)
(***************************************************************************)
\* the html the k-th call assigns when it reaches the assignment
Expected(k) == IF shows[k].withUrl THEN ContentOf(k) ELSE DummyContent

\* calls were issued and none of them is still awaiting its extraction
AllCompleted ==
  /\ shows # <<>>
  /\ \A k \in 1..Len(shows) : shows[k].pc # "awaiting"

\* once every call has completed and the most recently issued one has
\* written, the held panel shows the data of that call
LatestCallShown ==
  (/\ AllCompleted
   /\ shows[Len(shows)].pc = "written"
   /\ panel # Absent)
  => html[panel[1]] = Expected(Len(shows))

\* a step in which the extraction a call awaits throws
ThrowStep ==
  \E k \in 1..Len(shows) :
     shows[k].pc = "awaiting" /\ shows'[k].pc = "rejected"

\* a call whose extraction throws leaves the content of every panel as it is
ThrowLeavesContent == [][ThrowStep => html' = html]_vars

\* C22: when showProblem calls overlap, once all of them have completed the
\* panel shows the ProblemData of the most recently issued call, not that
\* of an earlier call whose extraction finished later; and a call whose
\* extraction throws leaves the panel content unchanged.
C22_LatestCallWins == []LatestCallShown /\ ThrowLeavesContent

====
